---- MODULE Spec2Model ----
(***************************************************************************)
(* Model of the PyPI search server (src/MCP/pypi-search/src/index.ts,      *)
(* class PyPISearchServer): the maintenance scorer, getPackageDetails,     *)
(* the CallTool request handler and search_packages; and of the package    *)
(* list cache of the server version kept in src/unnamed/part_000.          *)
(*                                                                         *)
(* Time.  The code measures time in milliseconds (Date.getTime()).  The    *)
(* model measures it in ticks of one hour (3,600,000 ms), so that every    *)
(* duration of the code is a whole number of ticks and fits TLC's          *)
(* integers: 30 days = 720 ticks, 365 days = 8760 ticks.  An instant is    *)
(* the number of ticks since an arbitrary epoch.  The cache alone, whose   *)
(* TTL is one hour, keeps its times in ms (clockMs, lastCacheUpdate).      *)
(*                                                                         *)
(* Fractions.  recencyScore is a fraction in the code.  The model keeps    *)
(* it exactly, as a numerator over the denominator MonthTicks, and         *)
(* Math.round is computed on that fraction.                                *)
(***************************************************************************)
EXTENDS Integers, Sequences, FiniteSets

VARIABLES
    now,             \* the system clock, what `new Date()` reads
    releaseHistory,  \* the sorted release list getPackageDetails hands to the scorer
    call,            \* the last completed scorer call: its arguments, locals and results
    scoreArg,        \* getMaintenanceStatus called on its own: the argument
    statusRet,       \* ... and what it returned
    registry,        \* the registry's info.releases of the hosted package
    requests,        \* the CallTool requests: where each stands, what it read and answered
    clockMs,         \* the system clock as Date.now() reads it, in ms
    index,           \* the registry's page of all packages, as its hrefs
    packageCache,    \* this.packageCache
    lastCacheUpdate, \* this.lastCacheUpdate
    calls,           \* the search_packages requests that go through getAllPackages
    search           \* a search_packages request of the current source and its detail fetches

scorerVars == <<releaseHistory, call, scoreArg, statusRet>>

serverVars == <<registry, requests>>

cacheVars == <<clockMs, index, packageCache, lastCacheUpdate, calls>>

searchVars == <<search>>

vars == <<now, releaseHistory, call, scoreArg, statusRet, registry, requests,
          clockMs, index, packageCache, lastCacheUpdate, calls, search>>

-----------------------------------------------------------------------------
(* Bounds *)

\* the longest release history
MaxLen == 11

\* the largest score handed to getMaintenanceStatus on its own
MaxScore == 100

\* the most release files the registry holds
MaxFiles == 2

\* the most release files the registry holds in the runs of one request
MaxHistory == 11

-----------------------------------------------------------------------------
(* Durations of the code, in ticks *)

\* 1000 * 60 * 60 * 24 * 30 ms
MonthTicks == 24 * 30

\* 365 * 24 * 60 * 60 * 1000 ms
YearTicks == 365 * 24

\* the smallest age step at which recencyScore moves by one half
HalfStep == MonthTicks \div 4

\* Upload times the registry reports, as instants.
ReleaseInstants == {0, HalfStep}

\* Clock readings.  With a release at instant 0 these are ages of: nothing,
\* 7.5 days, 30 days, one tick short of 365 days, 365 days, 13 months,
\* one tick short of 25 months, 25 months, 30 months.
ClockInstants ==
    {0, HalfStep, MonthTicks, YearTicks - 1, YearTicks, 13 * MonthTicks,
     25 * MonthTicks - 1, 25 * MonthTicks, 30 * MonthTicks}

-----------------------------------------------------------------------------
(* Helpers *)

Max(a, b) == IF a >= b THEN a ELSE b

Min(a, b) == IF a <= b THEN a ELSE b

\* Variant: a fraction of exactly one half going down.
MathRound_HalfDown(num, den) == (2 * num + den - 1) \div (2 * den)

\* Math.round of the fraction num / den (den > 0): the nearest integer,
\* a fraction of exactly one half going up.
MathRound(num, den) == (2 * num + den) \div (2 * den)

\* Array.prototype.sort with the comparator of getPackageDetails:
\* new Date(b.date).getTime() - new Date(a.date).getTime(), most recent first.
RECURSIVE InsertByDateDesc(_, _)
InsertByDateDesc(r, s) ==
    IF s = <<>> THEN <<r>>
    ELSE IF r.date > Head(s).date THEN <<r>> \o s
    ELSE <<Head(s)>> \o InsertByDateDesc(r, Tail(s))

RECURSIVE SortByDateDesc(_)
SortByDateDesc(s) ==
    IF s = <<>> THEN <<>>
    ELSE InsertByDateDesc(s[Len(s)], SortByDateDesc(SubSeq(s, 1, Len(s) - 1)))

IsSortedDesc(h) == \A i \in 1..(Len(h) - 1) : h[i].date >= h[i + 1].date

-----------------------------------------------------------------------------
(* calculateMaintenanceScore and its locals; h is releaseHistory, n is now *)

lastRelease(h) == h[1].date

\* Variant: the subtraction the other way round.
sinceLastRelease_Swapped(h, n) == lastRelease(h) - n

\* now.getTime() - lastRelease.getTime(); monthsSinceLastRelease is this
\* over MonthTicks
sinceLastRelease(h, n) == n - lastRelease(h)

\* Variant: the operands the other way round.
oneYearAgo_Swapped(n) == YearTicks - n

oneYearAgo(n) == n - YearTicks

\* Variant: the filter negated (the records not newer than a year).
releasesLastYear_Older(h, n) ==
    Cardinality({i \in 1..Len(h) : ~(h[i].date > oneYearAgo(n))})

\* Variant: >= in place of >.
releasesLastYear_Inclusive(h, n) ==
    Cardinality({i \in 1..Len(h) : h[i].date >= oneYearAgo(n)})

releasesLastYear(h, n) ==
    Cardinality({i \in 1..Len(h) : h[i].date > oneYearAgo(n)})

\* Variant: one point a month instead of two.
recencyScore_OnePerMonth(h, n) ==
    Max(0, 50 * MonthTicks - sinceLastRelease(h, n))

\* Variant: no Math.max(0, ...).
recencyScore_NoFloor(h, n) == 50 * MonthTicks - 2 * sinceLastRelease(h, n)

\* recencyScore, as a numerator over MonthTicks:
\* Math.max(0, 50 - monthsSinceLastRelease * 2)
recencyScore(h, n) == Max(0, 50 * MonthTicks - 2 * sinceLastRelease(h, n))

\* Variant: ten points a release instead of five.
frequencyScore_TenPerRelease(h, n) == Min(50, releasesLastYear(h, n) * 10)

\* Variant: no Math.min(50, ...).
frequencyScore_NoCap(h, n) == releasesLastYear(h, n) * 5

\* Variant: four points a release instead of five.
frequencyScore_FourPerRelease(h, n) == Min(50, releasesLastYear(h, n) * 4)

\* Math.min(50, releasesLastYear * 5)
frequencyScore(h, n) == Min(50, releasesLastYear(h, n) * 5)

\* Variant: no early return; an empty history counts as released just now.
calculateMaintenanceScore_NoEarlyReturn(h, n) ==
    IF Len(h) = 0 THEN MathRound(50 * MonthTicks, MonthTicks)
    ELSE MathRound(recencyScore(h, n) + frequencyScore(h, n) * MonthTicks,
                   MonthTicks)

calculateMaintenanceScore(h, n) ==
    IF Len(h) = 0 THEN 0
    ELSE MathRound(recencyScore(h, n) + frequencyScore(h, n) * MonthTicks,
                   MonthTicks)

\* Variant: > in place of >=.
getMaintenanceStatus_Strict(score) ==
    IF score > 80 THEN "Actively maintained"
    ELSE IF score > 60 THEN "Regularly maintained"
    ELSE IF score > 40 THEN "Occasionally maintained"
    ELSE IF score > 20 THEN "Minimally maintained"
    ELSE "Poorly maintained"

getMaintenanceStatus(score) ==
    IF score >= 80 THEN "Actively maintained"
    ELSE IF score >= 60 THEN "Regularly maintained"
    ELSE IF score >= 40 THEN "Occasionally maintained"
    ELSE IF score >= 20 THEN "Minimally maintained"
    ELSE "Poorly maintained"

-----------------------------------------------------------------------------
(* getPackageDetails: from the registry's answer to the PackageDetails *)

\* Object.entries(info.releases).flatMap(([version, releases]) =>
\*     releases.map(release => ({ version, date: release.upload_time })))
\* releases is the sequence of the entries, each [version, files].
RECURSIVE flatMapReleases(_)
flatMapReleases(releases) ==
    IF releases = <<>> THEN <<>>
    ELSE [i \in 1..Len(Head(releases).files) |->
             [version |-> Head(releases).version,
              date |-> Head(releases).files[i].upload_time]]
         \o flatMapReleases(Tail(releases))

\* Variant: one record a version, dated by its first file.
sortedReleaseHistory_PerVersion(releases) ==
    SortByDateDesc(
        [i \in 1..Len(releases) |->
            [version |-> releases[i].version,
             date |-> releases[i].files[1].upload_time]])

\* const releaseHistory of getPackageDetails: flattened, then sorted
sortedReleaseHistory(releases) == SortByDateDesc(flatMapReleases(releases))

\* releaseHistory[0]?.date || 'No releases found'
lastReleaseField(h) ==
    IF Len(h) = 0 THEN [text |-> "No releases found"] ELSE [date |-> h[1].date]

\* The object getPackageDetails returns, for the answer info read at clock n.
\* The fields copied from info.info unchanged are left out, but for the name.
\* Variant: releaseHistory without slice(0, 10).
PackageDetails_NoSlice(info, n) ==
    LET h == sortedReleaseHistory(info.releases)
        maintenanceScore == calculateMaintenanceScore(h, n)
    IN  [name |-> info.name,
         summary |-> info.summary,
         description |-> info.description,
         lastRelease |-> lastReleaseField(h),
         releaseHistory |-> h,
         maintenanceScore |-> maintenanceScore,
         maintenanceStatus |-> getMaintenanceStatus(maintenanceScore)]

PackageDetails(info, n) ==
    LET h == sortedReleaseHistory(info.releases)
        maintenanceScore == calculateMaintenanceScore(h, n)
    IN  [name |-> info.name,
         summary |-> info.summary,
         description |-> info.description,
         lastRelease |-> lastReleaseField(h),
         releaseHistory |-> SubSeq(h, 1, Min(10, Len(h))),
         maintenanceScore |-> maintenanceScore,
         maintenanceStatus |-> getMaintenanceStatus(maintenanceScore)]

-----------------------------------------------------------------------------
(* The CallTool handler: requests, answers of the registry, results *)

\* the package the registry hosts; every other name is answered 404
HostedPackage == "requests"

\* info.info.summary of the hosted package
HostedSummary == "Python HTTP for Humans."

\* package_name values of a request
PackageNames == {HostedPackage, "this-package-does-not-exist-12345", "", "  "}

\* request.params.arguments: absent, without package_name, or with one.
\* None of them has a query: the search_packages requests that have one
\* are those of the search state machine below.
Arguments ==
    {[present |-> FALSE, hasName |-> FALSE, package_name |-> ""],
     [present |-> TRUE, hasName |-> FALSE, package_name |-> ""]}
    \cup {[present |-> TRUE, hasName |-> TRUE, package_name |-> p] :
             p \in PackageNames}

\* request.params.name
ToolNames == {"get_package_details", "search_packages", "delete_package"}

\* The cases of the switch.
KnownTools == {"search_packages", "get_package_details"}

Versions == {"1.0", "2.0"}

\* `${packageName}` in the URL of getPackageInfo
TemplateString(a) == IF a.hasName THEN a.package_name ELSE "undefined"

NoResponse == [outcome |-> "none", status |-> 0, releases |-> <<>>]

\* What the registry can answer to GET /pypi/<name>/json: the package
\* (status 200), a body without releases (status 200), 404 for a name it
\* does not host, an error status, or nothing before the 10 s timeout.
RegistryAnswers(name, held) ==
    (IF name = HostedPackage
     THEN {[outcome |-> "ok", status |-> 200, releases |-> held],
           [outcome |-> "malformed", status |-> 200, releases |-> <<>>]}
     ELSE {[outcome |-> "status", status |-> 404, releases |-> <<>>]})
    \cup {[outcome |-> "status", status |-> 500, releases |-> <<>>],
          [outcome |-> "timeout", status |-> 0, releases |-> <<>>]}

NoError == [class |-> "none", isAxiosError |-> FALSE, status |-> 0,
            code |-> "none", message |-> <<>>]

\* the error axios rejects with: a status outside 2xx, or the timeout
AxiosError(response) ==
    [class |-> "AxiosError", isAxiosError |-> TRUE, status |-> response.status,
     code |-> "none",
     message |-> IF response.outcome = "timeout"
                 THEN <<"timeout of 10000ms exceeded">>
                 ELSE <<"Request failed with status code ",
                        IF response.status = 404 THEN "404" ELSE "500">>]

\* the TypeError of Object.entries(undefined), a body without releases
TypeError ==
    [class |-> "TypeError", isAxiosError |-> FALSE, status |-> 0,
     code |-> "none", message |-> <<"Cannot convert undefined or null to object">>]

\* the TypeError of const { property } = request.params.arguments when the
\* request has no arguments
DestructureError(property) ==
    [class |-> "TypeError", isAxiosError |-> FALSE, status |-> 0,
     code |-> "none",
     message |-> <<"Cannot destructure property '", property,
                   "' of 'request.params.arguments' as it is undefined.">>]

\* the TypeError of query.toLowerCase() in searchPackages when the
\* arguments of the request have no query
ReadUndefinedError ==
    [class |-> "TypeError", isAxiosError |-> FALSE, status |-> 0,
     code |-> "none",
     message |-> <<"Cannot read properties of undefined (reading 'toLowerCase')">>]

\* What the registry can answer to GET /simple/-/all/json: the names
\* (status 200), an error status, or nothing before the 10 s timeout.
NamesAnswers ==
    {[outcome |-> "names", status |-> 200, releases |-> <<>>],
     [outcome |-> "status", status |-> 404, releases |-> <<>>],
     [outcome |-> "status", status |-> 500, releases |-> <<>>],
     [outcome |-> "timeout", status |-> 0, releases |-> <<>>]}

\* new McpError(code, message)
McpError(code, message) ==
    [class |-> "McpError", isAxiosError |-> FALSE, status |-> 0,
     code |-> code, message |-> message]

NoResult ==
    [kind |-> "none", isError |-> FALSE, text |-> <<>>, details |-> <<>>,
     error |-> NoError]

\* return { content: [{ type: 'text', text: JSON.stringify(details) }] }
ReturnDetails(d) ==
    [kind |-> "return", isError |-> FALSE, text |-> <<>>, details |-> <<d>>,
     error |-> NoError]

\* return { content: [{ type: 'text', text }], isError: true }
ReturnError(text) ==
    [kind |-> "return", isError |-> TRUE, text |-> text, details |-> <<>>,
     error |-> NoError]

\* the handler's promise rejects with error
Throw(error) ==
    [kind |-> "throw", isError |-> FALSE, text |-> <<>>, details |-> <<>>,
     error |-> error]

\* Variant: every error of a registry call is reported as a PyPI API error.
handlerCatch_No404(error) ==
    IF error.isAxiosError
    THEN ReturnError(<<"PyPI API error: ">> \o error.message)
    ELSE Throw(error)

\* Variant: every error becomes an error result, none is rethrown.
handlerCatch_CatchAll(error) ==
    IF error.isAxiosError /\ error.status = 404
    THEN ReturnError(<<"Package not found">>)
    ELSE ReturnError(<<"PyPI API error: ">> \o error.message)

\* Variant: only errors that carry a response are reported.
handlerCatch_ResponseOnly(error) ==
    IF error.isAxiosError /\ error.status # 0
    THEN IF error.status = 404
         THEN ReturnError(<<"Package not found">>)
         ELSE ReturnError(<<"PyPI API error: ">> \o error.message)
    ELSE Throw(error)

\* the catch block of the CallTool handler
handlerCatch(error) ==
    IF error.isAxiosError
    THEN IF error.status = 404
         THEN ReturnError(<<"Package not found">>)
         ELSE ReturnError(<<"PyPI API error: ">> \o error.message)
    ELSE Throw(error)

IdleRequest ==
    [pc |-> "idle", name |-> "", arguments |-> CHOOSE a \in Arguments : ~a.present,
     gets |-> 0, url |-> "", response |-> NoResponse, history |-> <<>>,
     clock |-> 0, result |-> NoResult]

\* Two requests, the fewest that can interleave.
RequestIds == {1, 2}

(* The package-list cache of the server version in src/unnamed/part_000:
   getAllPackages, called by searchPackages for every search_packages
   request.  Times are in ms here, as Date.now() gives them. *)

\* private readonly CACHE_TTL = 3600000
CACHE_TTL == 3600000

\* the first reading of Date.now() in a run
StartMs == 1000

\* Readings of Date.now(): the start, a second later, one ms short of the
\* TTL after the start, the TTL after it, two TTLs after it.
DateNowReadings ==
    {StartMs, StartMs + 1000, StartMs + CACHE_TTL - 1, StartMs + CACHE_TTL,
     StartMs + 2 * CACHE_TTL}

\* The hrefs of the page GET /simple/ answers with.
IndexPages ==
    {<<"SceneDetect/">>,
     <<"/", "SceneDetect/", "video-scenedetect/">>}

\* match[1].replace(/\/$/, ''), then decodeURIComponent
StripSlash(href) ==
    CASE href = "/" -> ""
      [] href = "SceneDetect/" -> "SceneDetect"
      [] href = "video-scenedetect/" -> "video-scenedetect"
      [] OTHER -> href

IsName(name) == name # ""

\* html.match(/href="([^"]+)"/g)?.map(...).filter(name => name) || []
packageNames(html) ==
    SelectSeq([i \in 1..Len(html) |-> StripSlash(html[i])], IsName)

\* this.packageCache: null, or a list of names
Null == [isNull |-> TRUE, names |-> <<>>]

Cached(names) == [isNull |-> FALSE, names |-> names]

\* Variant: <= in place of <.
cacheIsFresh_Inclusive(cache, last, n) ==
    ~cache.isNull /\ n - last <= CACHE_TTL

\* this.packageCache && (now - this.lastCacheUpdate) < this.CACHE_TTL
cacheIsFresh(cache, last, n) ==
    ~cache.isNull /\ n - last < CACHE_TTL

\* String.prototype.toLowerCase on the names and queries of the model
ToLowerCase(str) == IF str = "SceneDetect" THEN "scenedetect" ELSE str

\* String.prototype.includes on lower-cased names and queries
Includes(str, part) ==
    \/ str = part
    \/ part = ""
    \/ str = "video-scenedetect" /\ part = "scenedetect"

Queries == {"scenedetect", ""}

\* args?.limit: undefined, which searchPackages replaces by 100
DefaultLimit == 100

IsExactMatch(pkg, query) == ToLowerCase(pkg) = ToLowerCase(query)

\* .sort((a, b) => b.score - a.score), scores in tenths
RECURSIVE InsertByScoreDesc(_, _)
InsertByScoreDesc(r, s) ==
    IF s = <<>> THEN <<r>>
    ELSE IF r.score > Head(s).score THEN <<r>> \o s
    ELSE <<Head(s)>> \o InsertByScoreDesc(r, Tail(s))

RECURSIVE SortByScoreDesc(_)
SortByScoreDesc(s) ==
    IF s = <<>> THEN <<>>
    ELSE InsertByScoreDesc(s[Len(s)], SortByScoreDesc(SubSeq(s, 1, Len(s) - 1)))

\* searchPackages from the list getAllPackages returned: exact matches
\* with score 1.0, then the names that include the query with score 0.5
matchPackages(packages, query, limit) ==
    LET exact(pkg) == IsExactMatch(pkg, query)
        partial(pkg) ==
            ~IsExactMatch(pkg, query)
               /\ Includes(ToLowerCase(pkg), ToLowerCase(query))
        exactMatches == SelectSeq(packages, exact)
        results ==
            [i \in 1..Len(exactMatches) |->
                [name |-> exactMatches[i], score |-> 10]]
        partialMatches ==
            LET names == SelectSeq(packages, partial)
            IN  [i \in 1..Len(names) |-> [name |-> names[i], score |-> 5]]
        all == IF Len(results) < limit THEN results \o partialMatches
               ELSE results
        sorted == SortByScoreDesc(all)
    IN  SubSeq(sorted, 1, Min(limit, Len(sorted)))

\* what the handler returns for the results of searchPackages
ReturnResults(results) ==
    [kind |-> "return", isError |-> FALSE,
     text |-> IF Len(results) = 0
              THEN <<"No packages found matching the search criteria.">>
              ELSE <<>>,
     details |-> results, error |-> NoError]

\* Variant: an error without a response gives an empty result.
searchCatch_Empty(error, hasResponse) ==
    IF error.class = "McpError" THEN Throw(error)
    ELSE IF hasResponse
    THEN IF error.status = 404 THEN ReturnError(<<"Package not found">>)
         ELSE ReturnError(<<"PyPI API error: ">> \o error.message)
    ELSE ReturnResults(<<>>)

\* the catch block of the CallTool handler of this version; hasResponse is
\* 'response' in error
searchCatch(error, hasResponse) ==
    IF error.class = "McpError" THEN Throw(error)
    ELSE IF hasResponse
    THEN IF error.status = 404 THEN ReturnError(<<"Package not found">>)
         ELSE ReturnError(<<"PyPI API error: ">> \o error.message)
    ELSE Throw(error)

NoPage == [outcome |-> "none", status |-> 0, hasResponse |-> FALSE, html |-> <<>>]

\* What the registry can answer to GET /simple/: the page, an error
\* status, or nothing before the timeout; the error axios builds for a
\* timeout has a response property in some versions of axios and none in
\* others.
IndexAnswers(page) ==
    {[outcome |-> "ok", status |-> 200, hasResponse |-> TRUE, html |-> page],
     [outcome |-> "status", status |-> 500, hasResponse |-> TRUE, html |-> <<>>],
     [outcome |-> "timeout", status |-> 0, hasResponse |-> TRUE, html |-> <<>>],
     [outcome |-> "timeout", status |-> 0, hasResponse |-> FALSE, html |-> <<>>]}

\* what getAllPackages gave its caller: nothing yet, a list (from the
\* cache, from the fetch, or the stale cache after a failed fetch), or the
\* error it threw
NoList == [from |-> "none", names |-> <<>>]

CallIds == {1, 2}

\* A search_packages request not yet received.  now is the const of
\* getAllPackages, seen is this.lastCacheUpdate when the call began.
IdleCall ==
    [pc |-> "idle", query |-> "", now |-> 0, seen |-> 0, gets |-> 0,
     response |-> NoPage, packages |-> NoList, result |-> NoResult]

CacheConstructed ==
    /\ clockMs = StartMs
    /\ index = <<"SceneDetect/">>
    /\ packageCache = Null
    /\ lastCacheUpdate = 0
    /\ calls = [c \in CallIds |-> IdleCall]

-----------------------------------------------------------------------------
(* search_packages of the current source: searchPackages, the parallel
   calls of getPackageDetails and isRelevantPackage *)

\* this.relevantTerms
relevantTerms ==
    <<"scene", "detect", "split", "segment", "video", "frame", "shot",
      "boundary", "temporal", "sequence", "transition", "cut", "keyframe",
      "visual">>

\* the negative indicators of isRelevantPackage
negativeTerms ==
    <<"convert", "compression", "codec", "format", "player", "streaming">>

Range(seq) == {seq[i] : i \in 1..Len(seq)}

\* The packages of the registry, in the order GET /simple/-/all/json lists
\* their names, with what GET /pypi/<name>/json answers for each.
Catalogue ==
    <<[name |-> "requests", summary |-> "Python HTTP for Humans.",
       description |-> "",
       releases |-> <<[version |-> "1.0",
                       files |-> <<[upload_time |-> 0]>>]>>],
      [name |-> "video-player", summary |-> "A video player",
       description |-> "",
       releases |-> <<[version |-> "1.0",
                       files |-> <<[upload_time |-> 0],
                                   [upload_time |-> HalfStep],
                                   [upload_time |-> HalfStep]>>]>>],
      [name |-> "SceneDetect", summary |-> "Video scene cut detection",
       description |-> "",
       releases |-> <<[version |-> "1.0",
                       files |-> <<[upload_time |-> HalfStep]>>]>>],
      [name |-> "video-split", summary |-> "Split video files by format",
       description |-> "",
       releases |-> <<[version |-> "1.0",
                       files |-> <<[upload_time |-> 0]>>],
                      [version |-> "2.0",
                       files |-> <<[upload_time |-> 0]>>]>>]>>

\* String.prototype.includes after toLowerCase, on the strings of the
\* model: the terms of the searches and of isRelevantPackage that the
\* lower-cased string includes
TermsIn(str) ==
    CASE str = "requests" -> {"requests"}
      [] str = "video-player" -> {"video", "player"}
      [] str = "A video player" -> {"video", "player"}
      [] str = "SceneDetect" -> {"scene", "detect"}
      [] str = "Video scene cut detection" -> {"video", "scene", "cut", "detect"}
      [] str = "video-split" -> {"video", "split"}
      [] str = "Split video files by format" -> {"split", "video", "format"}
      [] OTHER -> {}

\* query.toLowerCase().split(/\s+/)
SplitQuery(query) ==
    CASE query = "video" -> {"video"}
      [] query = "Requests player" -> {"requests", "player"}
      [] OTHER -> {query}

SearchQueries == {"video", "Requests player"}

\* limit of the arguments; 0 stands for an absent limit
SearchLimits == {0, 1, 2}

\* const { query, limit = 100 } = request.params.arguments
limitOrDefault(limit) == IF limit = 0 THEN 100 ELSE limit

\* searchPackages, once the names have arrived: the names that include a
\* search term, those that include more of them first
matchingNames(names, query) ==
    LET searchTerms == SplitQuery(query) \cup Range(relevantTerms)
        scoredPackages ==
            [i \in 1..Len(names) |->
                [name |-> names[i],
                 score |-> Cardinality(TermsIn(names[i]) \cap searchTerms)]]
        hasScore(pkg) == pkg.score > 0
        sorted == SortByScoreDesc(SelectSeq(scoredPackages, hasScore))
    IN  [i \in 1..Len(sorted) |-> sorted[i].name]

isRelevantPackage(details) ==
    LET textToSearch ==
            TermsIn(details.name) \cup TermsIn(details.summary)
               \cup TermsIn(details.description)
        hasVideoTerm == "video" \in textToSearch
        hasSceneTerm == \E term \in Range(relevantTerms) : term \in textToSearch
        hasNegativeTerms ==
            \E term \in Range(negativeTerms) :
                /\ term \in textToSearch
                /\ "scene" \notin textToSearch
                /\ "detect" \notin textToSearch
                /\ "split" \notin textToSearch
    IN  hasVideoTerm /\ hasSceneTerm /\ ~hasNegativeTerms

\* .sort((a, b) => b.maintenanceScore - a.maintenanceScore)
RECURSIVE InsertByMaintenanceDesc(_, _)
InsertByMaintenanceDesc(r, s) ==
    IF s = <<>> THEN <<r>>
    ELSE IF r.maintenanceScore > Head(s).maintenanceScore THEN <<r>> \o s
    ELSE <<Head(s)>> \o InsertByMaintenanceDesc(r, Tail(s))

RECURSIVE SortByMaintenanceDesc(_)
SortByMaintenanceDesc(s) ==
    IF s = <<>> THEN <<>>
    ELSE InsertByMaintenanceDesc(s[Len(s)],
                                 SortByMaintenanceDesc(SubSeq(s, 1, Len(s) - 1)))

\* the entry of the catalogue for a name
InfoOf(name) ==
    Catalogue[CHOOSE i \in 1..Len(Catalogue) : Catalogue[i].name = name]

\* What the registry can answer to GET /pypi/<name>/json for a listed name.
DetailAnswers(name) ==
    {[outcome |-> "ok", status |-> 200, releases |-> InfoOf(name).releases],
     [outcome |-> "malformed", status |-> 200, releases |-> <<>>],
     [outcome |-> "status", status |-> 404, releases |-> <<>>],
     [outcome |-> "timeout", status |-> 0, releases |-> <<>>]}

\* Variant: a failed fetch gives a record without releases.
detailsOrNull_Placeholder(name, a, n) ==
    IF a.outcome = "ok"
    THEN <<PackageDetails(InfoOf(name), n)>>
    ELSE <<PackageDetails([InfoOf(name) EXCEPT !.releases = <<>>], n)>>

\* One element of the array given to Promise.all: the details, or null
\* (the empty tuple) when getPackageDetails threw.
detailsOrNull(name, a, n) ==
    IF a.outcome = "ok" THEN <<PackageDetails(InfoOf(name), n)>> ELSE <<>>

\* Variant: without the sort.
validResults_Unsorted(detailedResults) ==
    LET found == [i \in 1..Len(detailedResults) |-> detailedResults[i].value]
        kept(value) == value # <<>> /\ isRelevantPackage(value[1])
        filtered == SelectSeq(found, kept)
    IN  [i \in 1..Len(filtered) |-> filtered[i][1]]

\* detailedResults.filter(result !== null && isRelevantPackage(result))
\*                .sort(by maintenanceScore, highest first)
validResults(detailedResults) ==
    LET found == [i \in 1..Len(detailedResults) |-> detailedResults[i].value]
        kept(value) == value # <<>> /\ isRelevantPackage(value[1])
        filtered == SelectSeq(found, kept)
    IN  SortByMaintenanceDesc([i \in 1..Len(filtered) |-> filtered[i][1]])

\* return { content: [{ type: 'text', text: JSON.stringify(validResults) }] }
ReturnValid(results) ==
    [kind |-> "return", isError |-> FALSE, text |-> <<>>,
     details |-> results, error |-> NoError]

\* a call of getPackageDetails made by the search, its GET not yet answered
Pending == [settled |-> FALSE, outcome |-> "none", value |-> <<>>]

IdleSearch ==
    [pc |-> "idle", query |-> "", limit |-> 0, gets |-> 0,
     packageNames |-> <<>>, detailedResults |-> <<>>, order |-> <<>>,
     result |-> NoResult]

-----------------------------------------------------------------------------
(* The scorer as a state machine *)

NoCall == [done |-> FALSE]

\* What one call of the scorer leaves behind: the arguments it read, the
\* locals it computed (none for the empty history, which returns early) and
\* the score and label getPackageDetails puts in its answer.
Frame(h, n) ==
    [done |-> TRUE,
     releaseHistory |-> h,
     now |-> n,
     releasesLastYear |-> IF Len(h) = 0 THEN 0 ELSE releasesLastYear(h, n),
     recencyScore |-> IF Len(h) = 0 THEN 0 ELSE recencyScore(h, n),
     frequencyScore |-> IF Len(h) = 0 THEN 0 ELSE frequencyScore(h, n),
     score |-> calculateMaintenanceScore(h, n),
     status |-> getMaintenanceStatus(calculateMaintenanceScore(h, n))]

Init ==
    /\ now = 0
    /\ releaseHistory = <<>>
    /\ call = NoCall
    /\ scoreArg = 0
    /\ statusRet = "none"
    /\ registry = <<>>
    /\ requests = [r \in RequestIds |-> IdleRequest]
    /\ CacheConstructed
    /\ search = IdleSearch

\* The clock moves forward.
Tick ==
    /\ \E t \in ClockInstants : t > now /\ now' = t
    /\ UNCHANGED <<releaseHistory, call, scoreArg, statusRet>>
    /\ UNCHANGED serverVars
    /\ UNCHANGED cacheVars
    /\ UNCHANGED searchVars

\* The registry gains a release file; the list the next fetch yields is
\* the old one with the new record, sorted most recent first.
Upload ==
    /\ Len(releaseHistory) < MaxLen
    /\ \E t \in ReleaseInstants :
          releaseHistory' = SortByDateDesc(Append(releaseHistory, [date |-> t]))
    /\ UNCHANGED <<now, call, scoreArg, statusRet>>
    /\ UNCHANGED serverVars
    /\ UNCHANGED cacheVars
    /\ UNCHANGED searchVars

\* calculateMaintenanceScore(releaseHistory) followed by
\* getMaintenanceStatus(maintenanceScore), as in getPackageDetails.
Score ==
    /\ call' = Frame(releaseHistory, now)
    /\ UNCHANGED <<now, releaseHistory, scoreArg, statusRet>>
    /\ UNCHANGED serverVars
    /\ UNCHANGED cacheVars
    /\ UNCHANGED searchVars

Next == Tick \/ Upload \/ Score

Spec == Init /\ [][Next]_vars

-----------------------------------------------------------------------------
(* getMaintenanceStatus on its own, over every score *)

InitStatus ==
    /\ now = 0
    /\ releaseHistory = <<>>
    /\ call = NoCall
    /\ scoreArg \in 0..MaxScore
    /\ statusRet = "none"
    /\ registry = <<>>
    /\ requests = [r \in RequestIds |-> IdleRequest]
    /\ CacheConstructed
    /\ search = IdleSearch

Classify ==
    /\ statusRet = "none"
    /\ statusRet' = getMaintenanceStatus(scoreArg)
    /\ UNCHANGED <<now, releaseHistory, call, scoreArg>>
    /\ UNCHANGED serverVars
    /\ UNCHANGED cacheVars
    /\ UNCHANGED searchVars

NextStatus == Classify

SpecStatus == InitStatus /\ [][NextStatus]_vars

-----------------------------------------------------------------------------
(* The CallTool handler as a state machine: requests run concurrently, each
   suspended while its HTTP request is with the registry *)

\* Clock readings of the server runs: now, and a month and a year later.
ServerInstants == {0, MonthTicks, YearTicks}

InitServer ==
    /\ now = 0
    /\ releaseHistory = <<>>
    /\ call = NoCall
    /\ scoreArg = 0
    /\ statusRet = "none"
    /\ registry = <<>>
    /\ requests = [r \in RequestIds |-> IdleRequest]
    /\ CacheConstructed
    /\ search = IdleSearch

TickServer ==
    /\ \E t \in ServerInstants : t > now /\ now' = t
    /\ UNCHANGED scorerVars
    /\ UNCHANGED cacheVars
    /\ UNCHANGED searchVars
    /\ UNCHANGED serverVars

filesHeld == Len(flatMapReleases(registry))

\* The registry gains a file of version v, uploaded at instant t: appended
\* to the version's list, a new version going to the end of info.releases.
UploadFile(v, t) ==
    /\ filesHeld < MaxFiles
    /\ registry' =
          IF \E i \in 1..Len(registry) : registry[i].version = v
          THEN [i \in 1..Len(registry) |->
                   IF registry[i].version = v
                   THEN [registry[i] EXCEPT
                            !.files = Append(@, [upload_time |-> t])]
                   ELSE registry[i]]
          ELSE Append(registry,
                      [version |-> v, files |-> <<[upload_time |-> t]>>])
    /\ UNCHANGED <<now, requests>>
    /\ UNCHANGED scorerVars
    /\ UNCHANGED cacheVars
    /\ UNCHANGED searchVars

\* Variant: a request for a package whose details another request has
\* returned answers with those, without a GET of its own.
Receive_Cached(r, name, arguments) ==
    /\ requests[r].pc = "idle"
    /\ LET q == [requests[r] EXCEPT !.name = name, !.arguments = arguments]
           served == {s \in RequestIds :
                        /\ requests[s].pc = "done"
                        /\ requests[s].result.details # <<>>
                        /\ requests[s].url = TemplateString(arguments)}
       IN  requests' =
              [requests EXCEPT ![r] =
                  IF name = "get_package_details"
                  THEN IF arguments.present
                       THEN IF served # {}
                            THEN [q EXCEPT !.pc = "done",
                                           !.url = TemplateString(arguments),
                                           !.result =
                                               requests[CHOOSE s \in served : TRUE].result]
                            ELSE [q EXCEPT !.pc = "awaitInfo",
                                           !.gets = q.gets + 1,
                                           !.url = TemplateString(arguments)]
                       ELSE [q EXCEPT !.pc = "done",
                                      !.result =
                                          handlerCatch(
                                              DestructureError("package_name"))]
                  ELSE IF name = "search_packages"
                  THEN IF arguments.present
                       THEN [q EXCEPT !.pc = "awaitNames",
                                      !.gets = q.gets + 1,
                                      !.url = "/simple/-/all/json"]
                       ELSE [q EXCEPT !.pc = "done",
                                      !.result =
                                          handlerCatch(
                                              DestructureError("query"))]
                  ELSE [q EXCEPT !.pc = "done",
                                 !.result =
                                     handlerCatch(
                                         McpError("MethodNotFound",
                                                  <<"Unknown tool: ", name>>))]]
    /\ UNCHANGED <<now, registry>>
    /\ UNCHANGED scorerVars
    /\ UNCHANGED cacheVars
    /\ UNCHANGED searchVars

\* A CallTool request arrives and the handler runs up to its first await:
\* the switch on the tool name, the destructuring of the arguments and,
\* through getPackageDetails and getPackageInfo, the GET to the registry.
\* A search_packages request runs to the GET of the names in
\* searchPackages.
Receive(r, name, arguments) ==
    /\ requests[r].pc = "idle"
    /\ LET q == [requests[r] EXCEPT !.name = name, !.arguments = arguments]
       IN  requests' =
              [requests EXCEPT ![r] =
                  IF name = "get_package_details"
                  THEN IF arguments.present
                       THEN [q EXCEPT !.pc = "awaitInfo",
                                      !.gets = q.gets + 1,
                                      !.url = TemplateString(arguments)]
                       ELSE [q EXCEPT !.pc = "done",
                                      !.result =
                                          handlerCatch(
                                              DestructureError("package_name"))]
                  ELSE IF name = "search_packages"
                  THEN IF arguments.present
                       THEN [q EXCEPT !.pc = "awaitNames",
                                      !.gets = q.gets + 1,
                                      !.url = "/simple/-/all/json"]
                       ELSE [q EXCEPT !.pc = "done",
                                      !.result =
                                          handlerCatch(
                                              DestructureError("query"))]
                  ELSE [q EXCEPT !.pc = "done",
                                 !.result =
                                     handlerCatch(
                                         McpError("MethodNotFound",
                                                  <<"Unknown tool: ", name>>))]]
    /\ UNCHANGED <<now, registry>>
    /\ UNCHANGED scorerVars
    /\ UNCHANGED cacheVars
    /\ UNCHANGED searchVars

\* The registry answers the GET of request r from what it holds now.
Serve(r) ==
    /\ requests[r].pc = "awaitInfo"
    /\ \E a \in RegistryAnswers(requests[r].url, registry) :
          requests' = [requests EXCEPT ![r].pc = "responded",
                                       ![r].response = a]
    /\ UNCHANGED <<now, registry>>
    /\ UNCHANGED scorerVars
    /\ UNCHANGED cacheVars
    /\ UNCHANGED searchVars

\* Variant: info kept in one field of the server object, which holds the
\* answer of the first request still waiting to resume.
Deliver_SharedInfo(r) ==
    /\ requests[r].pc = "responded"
    /\ LET q == requests[r]
           first == CHOOSE s \in RequestIds :
                       /\ requests[s].pc = "responded"
                       /\ \A u \in RequestIds :
                              requests[u].pc = "responded" => s <= u
           a == requests[first].response
       IN  requests' =
              [requests EXCEPT ![r] =
                  IF a.outcome = "ok"
                  THEN [q EXCEPT !.pc = "done",
                                 !.history = sortedReleaseHistory(a.releases),
                                 !.clock = now,
                                 !.result =
                                     ReturnDetails(
                                         PackageDetails(
                                             [name |-> q.url,
                                              summary |-> HostedSummary,
                                              description |-> "",
                                              releases |-> a.releases], now))]
                  ELSE IF a.outcome = "malformed"
                  THEN [q EXCEPT !.pc = "done",
                                 !.result = handlerCatch(TypeError)]
                  ELSE [q EXCEPT !.pc = "done",
                                 !.result = handlerCatch(AxiosError(a))]]
    /\ UNCHANGED <<now, registry>>
    /\ UNCHANGED scorerVars
    /\ UNCHANGED cacheVars
    /\ UNCHANGED searchVars

\* The answer reaches the server and request r runs to its end: the rest
\* of getPackageDetails (which reads the clock) and the return, or the
\* catch block.
Deliver(r) ==
    /\ requests[r].pc = "responded"
    /\ LET q == requests[r]
           a == q.response
       IN  requests' =
              [requests EXCEPT ![r] =
                  IF a.outcome = "ok"
                  THEN [q EXCEPT !.pc = "done",
                                 !.history = sortedReleaseHistory(a.releases),
                                 !.clock = now,
                                 !.result =
                                     ReturnDetails(
                                         PackageDetails(
                                             [name |-> q.url,
                                              summary |-> HostedSummary,
                                              description |-> "",
                                              releases |-> a.releases], now))]
                  ELSE IF a.outcome = "malformed"
                  THEN [q EXCEPT !.pc = "done",
                                 !.result = handlerCatch(TypeError)]
                  ELSE [q EXCEPT !.pc = "done",
                                 !.result = handlerCatch(AxiosError(a))]]
    /\ UNCHANGED <<now, registry>>
    /\ UNCHANGED scorerVars
    /\ UNCHANGED cacheVars
    /\ UNCHANGED searchVars

\* The GET of the names of search_packages request r is answered and the
\* request runs to its end: its arguments have no query, so the rest of
\* searchPackages throws at query.toLowerCase() when the names arrive; a
\* failed GET, like the TypeError, goes to the catch block of the handler.
ResumeSearch(r) ==
    /\ requests[r].pc = "awaitNames"
    /\ \E a \in NamesAnswers :
          requests' =
             [requests EXCEPT
                 ![r].pc = "done",
                 ![r].response = a,
                 ![r].result = IF a.outcome = "names"
                               THEN handlerCatch(ReadUndefinedError)
                               ELSE handlerCatch(AxiosError(a))]
    /\ UNCHANGED <<now, registry>>
    /\ UNCHANGED scorerVars
    /\ UNCHANGED cacheVars
    /\ UNCHANGED searchVars

NextServer ==
    \/ TickServer
    \/ \E v \in Versions, t \in ReleaseInstants : UploadFile(v, t)
    \/ \E r \in RequestIds, name \in ToolNames, arguments \in Arguments :
          Receive(r, name, arguments)
    \/ \E r \in RequestIds : Serve(r)
    \/ \E r \in RequestIds : Deliver(r)
    \/ \E r \in RequestIds : ResumeSearch(r)

SpecServer == InitServer /\ [][NextServer]_vars

(* The cache as a state machine: search_packages requests of the version
   in src/unnamed/part_000, each suspended in getAllPackages while its GET
   of the package page is with the registry *)

TickMs ==
    /\ \E t \in DateNowReadings : t > clockMs /\ clockMs' = t
    /\ UNCHANGED <<now, index, packageCache, lastCacheUpdate, calls>>
    /\ UNCHANGED scorerVars
    /\ UNCHANGED serverVars
    /\ UNCHANGED searchVars

\* The registry's page of packages changes.
Publish ==
    /\ \E page \in IndexPages : page # index /\ index' = page
    /\ UNCHANGED <<now, clockMs, packageCache, lastCacheUpdate, calls>>
    /\ UNCHANGED scorerVars
    /\ UNCHANGED serverVars
    /\ UNCHANGED searchVars

\* the rest of searchPackages and of the handler, once getAllPackages has
\* returned the list names to call q
finishSearch(q, from, names) ==
    [q EXCEPT !.pc = "done",
              !.packages = [from |-> from, names |-> names],
              !.result = ReturnResults(
                             matchPackages(names, q.query, DefaultLimit))]

\* A search_packages request arrives: the check of the query, then
\* searchPackages and getAllPackages up to the return of the cached list
\* or the await of the GET.
StartCall(c, query) ==
    /\ calls[c].pc \in {"idle", "done"}
    /\ LET q == [IdleCall EXCEPT !.query = query, !.now = clockMs,
                                 !.seen = lastCacheUpdate]
       IN  calls' =
              [calls EXCEPT ![c] =
                  IF query = ""
                  THEN [q EXCEPT !.pc = "done",
                                 !.now = 0,
                                 !.seen = 0,
                                 !.result =
                                     searchCatch(
                                         McpError("InvalidParams",
                                                  <<"Query is required">>),
                                         FALSE)]
                  ELSE IF cacheIsFresh(packageCache, lastCacheUpdate, clockMs)
                  THEN finishSearch(q, "cache", packageCache.names)
                  ELSE [q EXCEPT !.pc = "fetching", !.gets = 1]]
    /\ UNCHANGED <<now, clockMs, index, packageCache, lastCacheUpdate>>
    /\ UNCHANGED scorerVars
    /\ UNCHANGED serverVars
    /\ UNCHANGED searchVars

\* The registry answers the GET of call c from the page it holds now.
AnswerIndex(c) ==
    /\ calls[c].pc = "fetching"
    /\ \E a \in IndexAnswers(index) :
          calls' = [calls EXCEPT ![c].pc = "responded", ![c].response = a]
    /\ UNCHANGED <<now, clockMs, index, packageCache, lastCacheUpdate>>
    /\ UNCHANGED scorerVars
    /\ UNCHANGED serverVars
    /\ UNCHANGED searchVars

\* Variant: a failed fetch restarts the TTL of the cached list.
ResumeCall_TouchOnFail(c) ==
    /\ calls[c].pc = "responded"
    /\ LET q == calls[c]
           a == q.response
       IN  IF a.outcome = "ok"
           THEN /\ packageCache' = Cached(packageNames(a.html))
                /\ lastCacheUpdate' = q.now
                /\ calls' = [calls EXCEPT ![c] =
                                finishSearch(q, "fetch", packageNames(a.html))]
           ELSE IF ~packageCache.isNull
           THEN /\ calls' = [calls EXCEPT ![c] =
                                finishSearch(q, "stale", packageCache.names)]
                /\ lastCacheUpdate' = q.now
                /\ UNCHANGED packageCache
           ELSE /\ calls' = [calls EXCEPT ![c] =
                                [q EXCEPT !.pc = "done",
                                          !.packages = [from |-> "thrown",
                                                        names |-> <<>>],
                                          !.result =
                                              searchCatch(AxiosError(a),
                                                          a.hasResponse)]]
                /\ UNCHANGED <<packageCache, lastCacheUpdate>>
    /\ UNCHANGED <<now, clockMs, index>>
    /\ UNCHANGED scorerVars
    /\ UNCHANGED serverVars
    /\ UNCHANGED searchVars

\* The answer reaches the server and call c runs to its end: the rest of
\* the try block of getAllPackages or its catch block, then searchPackages
\* and the handler.
ResumeCall(c) ==
    /\ calls[c].pc = "responded"
    /\ LET q == calls[c]
           a == q.response
       IN  IF a.outcome = "ok"
           THEN /\ packageCache' = Cached(packageNames(a.html))
                /\ lastCacheUpdate' = q.now
                /\ calls' = [calls EXCEPT ![c] =
                                finishSearch(q, "fetch", packageNames(a.html))]
           ELSE IF ~packageCache.isNull
           THEN /\ calls' = [calls EXCEPT ![c] =
                                finishSearch(q, "stale", packageCache.names)]
                /\ UNCHANGED <<packageCache, lastCacheUpdate>>
           ELSE /\ calls' = [calls EXCEPT ![c] =
                                [q EXCEPT !.pc = "done",
                                          !.packages = [from |-> "thrown",
                                                        names |-> <<>>],
                                          !.result =
                                              searchCatch(AxiosError(a),
                                                          a.hasResponse)]]
                /\ UNCHANGED <<packageCache, lastCacheUpdate>>
    /\ UNCHANGED <<now, clockMs, index>>
    /\ UNCHANGED scorerVars
    /\ UNCHANGED serverVars
    /\ UNCHANGED searchVars

NextCache ==
    \/ TickMs
    \/ Publish
    \/ \E c \in CallIds, query \in Queries : StartCall(c, query)
    \/ \E c \in CallIds : AnswerIndex(c)
    \/ \E c \in CallIds : ResumeCall(c)

SpecCache == InitServer /\ [][NextCache]_vars

-----------------------------------------------------------------------------
(* search_packages as a state machine: one request, suspended first in
   searchPackages and then in Promise.all while the GETs of its candidates
   are with the registry; the GETs are answered in any order *)

\* The request arrives and the handler runs to the await of the GET of
\* the names.
ReceiveSearch(query, limit) ==
    /\ search.pc = "idle"
    /\ search' = [search EXCEPT !.pc = "awaitNames", !.query = query,
                                !.limit = limit, !.gets = 1]
    /\ UNCHANGED <<now, registry, requests>>
    /\ UNCHANGED scorerVars
    /\ UNCHANGED cacheVars

\* The request arrives without arguments: the destructuring throws and
\* the catch block rethrows.
ReceiveSearchNoArguments ==
    /\ search.pc = "idle"
    /\ search' = [search EXCEPT
                     !.pc = "done",
                     !.result = handlerCatch(DestructureError("query"))]
    /\ UNCHANGED <<now, registry, requests>>
    /\ UNCHANGED scorerVars
    /\ UNCHANGED cacheVars

\* The names arrive: the rest of searchPackages, the slice and the start
\* of getPackageDetails for every candidate, each up to its GET.
DeliverNames ==
    /\ search.pc = "awaitNames"
    /\ LET names == [i \in 1..Len(Catalogue) |-> Catalogue[i].name]
           all == matchingNames(names, search.query)
           sliced ==
               SubSeq(all, 1, Min(limitOrDefault(search.limit), Len(all)))
       IN  search' = [search EXCEPT
                         !.pc = "awaitAll",
                         !.packageNames = sliced,
                         !.gets = @ + Len(sliced),
                         !.detailedResults =
                             [i \in 1..Len(sliced) |-> Pending]]
    /\ UNCHANGED <<now, registry, requests>>
    /\ UNCHANGED scorerVars
    /\ UNCHANGED cacheVars

\* The GET of the names fails: the catch block of the handler.
FailNames ==
    /\ search.pc = "awaitNames"
    /\ \E a \in NamesAnswers :
          a.outcome # "names" /\
          search' = [search EXCEPT !.pc = "done",
                                   !.result = handlerCatch(AxiosError(a))]
    /\ UNCHANGED <<now, registry, requests>>
    /\ UNCHANGED scorerVars
    /\ UNCHANGED cacheVars

\* The GET of candidate i is answered and its getPackageDetails runs to
\* its end, reading the clock, or throws into the catch of the map callback.
SettleDetails(i) ==
    /\ search.pc = "awaitAll"
    /\ i \in 1..Len(search.detailedResults)
    /\ ~search.detailedResults[i].settled
    /\ \E a \in DetailAnswers(search.packageNames[i]) :
          search' = [search EXCEPT
                        !.detailedResults[i] =
                            [settled |-> TRUE,
                             outcome |-> a.outcome,
                             value |-> detailsOrNull(search.packageNames[i],
                                                     a, now)],
                        !.order = Append(@, i)]
    /\ UNCHANGED <<now, registry, requests>>
    /\ UNCHANGED scorerVars
    /\ UNCHANGED cacheVars

\* Promise.all resolves: the filter, the sort and the return.
ReturnSearch ==
    /\ search.pc = "awaitAll"
    /\ \A i \in 1..Len(search.detailedResults) :
          search.detailedResults[i].settled
    /\ search' = [search EXCEPT
                     !.pc = "done",
                     !.result = ReturnValid(validResults(search.detailedResults))]
    /\ UNCHANGED <<now, registry, requests>>
    /\ UNCHANGED scorerVars
    /\ UNCHANGED cacheVars

NextSearch ==
    \/ TickServer
    \/ \E query \in SearchQueries, limit \in SearchLimits :
          ReceiveSearch(query, limit)
    \/ ReceiveSearchNoArguments
    \/ DeliverNames
    \/ FailNames
    \/ \E i \in 1..Len(Catalogue) : SettleDetails(i)
    \/ ReturnSearch

SpecSearch == InitServer /\ [][NextSearch]_vars

-----------------------------------------------------------------------------
(* getPackageDetails on long release lists: one get_package_details
   request for the hosted package, the registry holding up to MaxHistory
   files when the request arrives *)

HostedArguments ==
    [present |-> TRUE, hasName |-> TRUE, package_name |-> HostedPackage]

\* The registry gains a file of version v before the request arrives; the
\* files of a version are listed in the order of their upload.
UploadRelease(v, t) ==
    /\ requests[1].pc = "idle"
    /\ filesHeld < MaxHistory
    /\ \A i \in 1..Len(registry) :
          registry[i].version = v =>
             registry[i].files[Len(registry[i].files)].upload_time <= t
    /\ registry' =
          IF \E i \in 1..Len(registry) : registry[i].version = v
          THEN [i \in 1..Len(registry) |->
                   IF registry[i].version = v
                   THEN [registry[i] EXCEPT
                            !.files = Append(@, [upload_time |-> t])]
                   ELSE registry[i]]
          ELSE Append(registry,
                      [version |-> v, files |-> <<[upload_time |-> t]>>])
    /\ UNCHANGED <<now, requests>>
    /\ UNCHANGED scorerVars
    /\ UNCHANGED cacheVars
    /\ UNCHANGED searchVars

NextDetails ==
    \/ TickServer
    \/ \E v \in Versions, t \in ReleaseInstants : UploadRelease(v, t)
    \/ Receive(1, "get_package_details", HostedArguments)
    \/ Serve(1)
    \/ Deliver(1)

SpecDetails == InitServer /\ [][NextDetails]_vars

-----------------------------------------------------------------------------
(* Vocabulary of the properties *)

\* The histories of k records, most recent first, none later than instant top.
RECURSIVE SortedHistories(_, _)
SortedHistories(k, top) ==
    IF k = 0 THEN {<<>>}
    ELSE UNION {{<<[date |-> t]>> \o s : s \in SortedHistories(k - 1, t)} :
                   t \in {u \in ReleaseInstants : u <= top}}

\* Every release history the registry can hold within the bounds.
Histories ==
    UNION {UNION {SortedHistories(k, top) : top \in ReleaseInstants} :
              k \in 0..MaxLen}

\* age of the most recent record of a call, in ticks
Age(c) == c.now - c.releaseHistory[1].date

\* records of h strictly inside the 365 days that end at instant n
InTrailingYear(h, n) ==
    Cardinality({i \in 1..Len(h) : n - h[i].date < YearTicks})

\* a completed call on a non-empty history
Scored == call.done /\ Len(call.releaseHistory) > 0

\* h and g differ only in the timestamp of their most recent record
DifferOnlyInFirst(h, g) ==
    /\ Len(h) = Len(g)
    /\ Len(h) > 0
    /\ h[1].date # g[1].date
    /\ \A i \in 2..Len(h) : h[i] = g[i]

-----------------------------------------------------------------------------
(* C1: every scorer call on a non-empty history sorted most recent first,
   at every clock reading (also one earlier than the most recent timestamp),
   returns an integer between 0 and 100. *)
C1_ScoreInRange ==
    Scored /\ IsSortedDesc(call.releaseHistory) => call.score \in 0..100

(* C2: on the empty history the scorer returns exactly 0 and the label of
   that score is "Poorly maintained", whatever the clock reads. *)
C2_EmptyHistory ==
    call.done /\ call.releaseHistory = <<>> =>
        call.score = 0 /\ call.status = "Poorly maintained"

C2_Witness ==
    /\ call.done
    /\ call.releaseHistory = <<>>
    /\ call.now = 30 * MonthTicks
    /\ call.score = 0

(* C3: recency monotonicity.  Of two sorted histories scored at the same
   clock reading that differ only in the timestamp of their most recent
   record, the one whose most recent record is later scores at least as
   much. *)
C3_RecencyMonotone ==
    Scored =>
        \A A \in Histories :
            /\ DifferOnlyInFirst(A, call.releaseHistory)
            /\ A[1].date > call.releaseHistory[1].date
            => calculateMaintenanceScore(A, call.now) >= call.score

C3_Witness ==
    /\ Scored
    /\ \E A \in Histories :
          /\ DifferOnlyInFirst(A, call.releaseHistory)
          /\ A[1].date > call.releaseHistory[1].date
          /\ calculateMaintenanceScore(A, call.now) > call.score

(* C4: frequency monotonicity.  Of two sorted histories scored at the same
   clock reading with the same most recent timestamp, the one with more
   records inside the trailing 365 days scores at least as much. *)
C4_FrequencyMonotone ==
    Scored =>
        \A A \in Histories :
            /\ Len(A) > 0
            /\ A[1].date = call.releaseHistory[1].date
            /\ InTrailingYear(A, call.now)
                  > InTrailingYear(call.releaseHistory, call.now)
            => calculateMaintenanceScore(A, call.now) >= call.score

C4_Witness ==
    /\ Scored
    /\ \E A \in Histories :
          /\ Len(A) > 0
          /\ A[1].date = call.releaseHistory[1].date
          /\ InTrailingYear(A, call.now)
                > InTrailingYear(call.releaseHistory, call.now)
          /\ calculateMaintenanceScore(A, call.now) > call.score

(* C6: getMaintenanceStatus gives every integer score exactly the label of
   its band: 80 and above "Actively maintained", 60..79 "Regularly
   maintained", 40..59 "Occasionally maintained", 20..39 "Minimally
   maintained", below 20 "Poorly maintained"; 76 is "Regularly maintained". *)
C6_StatusBands ==
    statusRet # "none" =>
        /\ \/ scoreArg >= 80 /\ statusRet = "Actively maintained"
           \/ scoreArg \in 60..79 /\ statusRet = "Regularly maintained"
           \/ scoreArg \in 40..59 /\ statusRet = "Occasionally maintained"
           \/ scoreArg \in 20..39 /\ statusRet = "Minimally maintained"
           \/ scoreArg < 20 /\ statusRet = "Poorly maintained"
        /\ scoreArg = 76 => statusRet = "Regularly maintained"

C6_Witness == scoreArg = 76 /\ statusRet = "Regularly maintained"

(* C7, as claimed: a sorted history whose most recent release is 13 months
   (390 days) old has 1 release in the trailing year and yields recencyScore
   24, frequencyScore 5, score 29 and "Minimally maintained". *)
C7_AsClaimed ==
    Scored /\ IsSortedDesc(call.releaseHistory) /\ Age(call) = 13 * MonthTicks =>
        /\ InTrailingYear(call.releaseHistory, call.now) = 1
        /\ call.recencyScore = 24 * MonthTicks
        /\ call.frequencyScore = 5
        /\ call.score = 29
        /\ call.status = "Minimally maintained"

(* C7, amended: a sorted history whose most recent release is 13 months
   (390 days) old has no release in the trailing year and yields
   recencyScore 24, frequencyScore 0, score 24 and "Minimally maintained". *)
C7_ThirteenMonths ==
    Scored /\ IsSortedDesc(call.releaseHistory) /\ Age(call) = 13 * MonthTicks =>
        /\ InTrailingYear(call.releaseHistory, call.now) = 0
        /\ call.recencyScore = 24 * MonthTicks
        /\ call.frequencyScore = 0
        /\ call.score = 24
        /\ call.status = "Minimally maintained"

C7_Witness ==
    /\ Scored
    /\ Age(call) = 13 * MonthTicks
    /\ Len(call.releaseHistory) > 1
    /\ call.score = 24

(* C8: a history whose most recent release is exactly 1 month (30 days) old
   with exactly 3 releases in the trailing year yields recencyScore 48,
   frequencyScore 15, score 63 and "Regularly maintained". *)
C8_OneMonthThreeReleases ==
    /\ Scored
    /\ Age(call) = MonthTicks
    /\ InTrailingYear(call.releaseHistory, call.now) = 3
    => /\ call.recencyScore = 48 * MonthTicks
       /\ call.frequencyScore = 15
       /\ call.score = 63
       /\ call.status = "Regularly maintained"

C8_Witness ==
    /\ Scored
    /\ Age(call) = MonthTicks
    /\ InTrailingYear(call.releaseHistory, call.now) = 3
    /\ call.score = 63

(* C9: recencyScore is 0 exactly when the most recent release is 25 months
   (750 days) old or older and is positive before that; a history whose most
   recent release is 30 months old, with no release in the trailing year,
   scores 0 and is "Poorly maintained". *)
C9_RecencyZero ==
    Scored =>
        /\ call.recencyScore = 0 <=> Age(call) >= 25 * MonthTicks
        /\ Age(call) < 25 * MonthTicks => call.recencyScore > 0
        /\ /\ Age(call) = 30 * MonthTicks
           /\ InTrailingYear(call.releaseHistory, call.now) = 0
           => call.score = 0 /\ call.status = "Poorly maintained"

C9_Witness ==
    /\ Scored
    /\ Age(call) = 30 * MonthTicks
    /\ InTrailingYear(call.releaseHistory, call.now) = 0
    /\ call.recencyScore = 0
    /\ call.score = 0

(* C10: frequencyScore is 5 times the number of trailing-year records up to
   10 records and 50 from 10 on, so with the same most recent timestamp every
   history of 10 or more trailing-year records gets the same score; a history
   whose most recent release is at the clock reading with 10 trailing-year
   releases scores 100 and is "Actively maintained". *)
C10_FrequencySaturates ==
    Scored =>
        LET k == InTrailingYear(call.releaseHistory, call.now) IN
        /\ call.frequencyScore = IF k <= 10 THEN 5 * k ELSE 50
        /\ k >= 10 =>
              \A A \in Histories :
                  /\ Len(A) > 0
                  /\ A[1].date = call.releaseHistory[1].date
                  /\ InTrailingYear(A, call.now) >= 10
                  => calculateMaintenanceScore(A, call.now) = call.score
        /\ Age(call) = 0 /\ k = 10 =>
              call.score = 100 /\ call.status = "Actively maintained"

C10_Witness ==
    /\ Scored
    /\ Age(call) = 0
    /\ InTrailingYear(call.releaseHistory, call.now) = 10
    /\ call.score = 100
    /\ Len(releaseHistory) > 10
    /\ releaseHistory[1].date = call.releaseHistory[1].date
    /\ InTrailingYear(releaseHistory, call.now) > 10

(* C11: a record counts toward releasesLastYear exactly when its timestamp
   is later than the clock reading minus 365 days: one that is exactly 365
   days old is left out, one a tick newer is counted, and every record of
   the history is looked at, not only the first 10. *)
C11_TrailingYearCount ==
    Scored =>
        LET h == call.releaseHistory
            age(i) == call.now - h[i].date
        IN  call.releasesLastYear =
               Cardinality({i \in 1..Len(h) : age(i) <= YearTicks - 1})

C11_Witness ==
    /\ Scored
    /\ Len(call.releaseHistory) > 10
    /\ call.now - call.releaseHistory[11].date = YearTicks - 1
    /\ call.releasesLastYear = Len(call.releaseHistory)

-----------------------------------------------------------------------------
(* Vocabulary of the properties of the handler *)

\* request q has returned package details
Detailed(q) ==
    q.pc = "done" /\ q.result.kind = "return" /\ q.result.details # <<>>

\* the PackageDetails request q returned
DetailsOf(q) == q.result.details[1]

\* the places of the files in info.releases: version i, file j
FileSlots(releases) ==
    UNION {{<<i, j>> : j \in 1..Len(releases[i].files)} :
              i \in 1..Len(releases)}

\* request q is a get_package_details request past its arrival
IsDetailsRequest(q) == q.pc # "idle" /\ q.name = "get_package_details"

(* C12: getPackageDetails builds the release history with one record for
   every uploaded file of every version (as many records as files, the files
   of one version kept apart and each counted by the score), ordered by
   upload time from the latest on, the first record carrying the latest
   upload time. *)
C12_OneRecordPerFile ==
    \A r \in RequestIds :
        Detailed(requests[r]) =>
            LET q == requests[r]
                rel == q.response.releases
                h == q.history
            IN  /\ Len(h) = Cardinality(FileSlots(rel))
                /\ \A v \in Versions, t \in ReleaseInstants :
                      Cardinality({k \in 1..Len(h) :
                                      h[k] = [version |-> v, date |-> t]})
                      = Cardinality({s \in FileSlots(rel) :
                                        /\ rel[s[1]].version = v
                                        /\ rel[s[1]].files[s[2]].upload_time = t})
                /\ \A k \in 1..(Len(h) - 1) : h[k].date >= h[k + 1].date
                /\ \A s \in FileSlots(rel) :
                      h[1].date >= rel[s[1]].files[s[2]].upload_time
                /\ DetailsOf(q).maintenanceScore
                      = calculateMaintenanceScore(h, q.clock)
                /\ InTrailingYear(h, q.clock)
                      = Cardinality({s \in FileSlots(rel) :
                            q.clock - rel[s[1]].files[s[2]].upload_time
                               < YearTicks})

C12_Witness ==
    \E r \in RequestIds :
        /\ Detailed(requests[r])
        /\ Len(requests[r].response.releases) = 1
        /\ Len(requests[r].history) = 2
        /\ requests[r].response.releases[1].files[1].upload_time
              < requests[r].response.releases[1].files[2].upload_time
        /\ requests[r].history[1].date > requests[r].history[2].date
        /\ requests[r].clock = MonthTicks
        /\ DetailsOf(requests[r]).maintenanceScore = 59

\* what request q returns when it is the only request of the run, with the
\* release list its GET fetched and the clock reading it took
AloneScore(q) ==
    calculateMaintenanceScore(sortedReleaseHistory(q.response.releases),
                              q.clock)

(* C13: however concurrent get_package_details requests interleave, the
   score and the label a request returns are those it returns when run
   alone with the release list it fetched and the clock reading it took,
   and no step of one request changes anything of another request. *)
C13_RequestsIsolated ==
    /\ [](\A r \in RequestIds :
             Detailed(requests[r]) =>
                /\ requests[r].response.outcome = "ok"
                /\ DetailsOf(requests[r]).maintenanceScore
                      = AloneScore(requests[r])
                /\ DetailsOf(requests[r]).maintenanceStatus
                      = getMaintenanceStatus(AloneScore(requests[r])))
    /\ [][\A r \in RequestIds, s \in RequestIds :
             (r # s /\ requests'[r] # requests[r])
                => requests'[s] = requests[s]]_vars

\* one request has returned while the other, which fetched another release
\* list, has yet to resume; the two score differently
C13_Witness ==
    /\ Detailed(requests[1])
    /\ requests[2].pc = "responded"
    /\ requests[2].response.outcome = "ok"
    /\ requests[2].name = "get_package_details"
    /\ requests[2].url = requests[1].url
    /\ requests[2].response.releases # requests[1].response.releases
    /\ calculateMaintenanceScore(
          sortedReleaseHistory(requests[2].response.releases), now)
          # DetailsOf(requests[1]).maintenanceScore

(* C14: every get_package_details request issues a GET of its own and its
   release history and score come from the release list that GET returned:
   no request answers with a list or a score an earlier request obtained. *)
C14_OwnFetch ==
    \A r \in RequestIds :
        LET q == requests[r]
        IN  /\ (IsDetailsRequest(q) /\ q.arguments.present) => q.gets = 1
            /\ Detailed(q) =>
                  LET h == SortByDateDesc(flatMapReleases(q.response.releases))
                  IN  /\ q.gets = 1
                      /\ q.response.outcome = "ok"
                      /\ DetailsOf(q).releaseHistory
                            = SubSeq(h, 1, Min(10, Len(h)))
                      /\ DetailsOf(q).maintenanceScore
                            = calculateMaintenanceScore(h, q.clock)

\* two requests for one package, the registry having gained a file between
\* their GETs: each answers from its own list
C14_Witness ==
    /\ Detailed(requests[1])
    /\ Detailed(requests[2])
    /\ requests[1].url = requests[2].url
    /\ requests[1].clock = requests[2].clock
    /\ Len(requests[1].history) = 1
    /\ Len(requests[2].history) = 2
    /\ Len(DetailsOf(requests[1]).releaseHistory) = 1
    /\ Len(DetailsOf(requests[2]).releaseHistory) = 2
    /\ DetailsOf(requests[1]).maintenanceScore
          # DetailsOf(requests[2]).maintenanceScore

(* C15: when the registry answers a get_package_details request with 404,
   the handler does not throw: it returns an error result, isError true,
   with the text "Package not found" and no package details. *)
C15_NotFoundResult ==
    \A r \in RequestIds :
        LET q == requests[r]
        IN  (/\ q.pc = "done"
             /\ q.name = "get_package_details"
             /\ q.response.outcome = "status"
             /\ q.response.status = 404)
            => /\ q.result.kind = "return"
               /\ q.result.isError
               /\ q.result.text = <<"Package not found">>
               /\ q.result.details = <<>>
               /\ q.result.error = NoError

C15_Witness ==
    \E r \in RequestIds :
        /\ requests[r].pc = "done"
        /\ requests[r].arguments.package_name
              = "this-package-does-not-exist-12345"
        /\ requests[r].url = "this-package-does-not-exist-12345"
        /\ requests[r].gets = 1
        /\ requests[r].response.status = 404
        /\ requests[r].result.isError
        /\ requests[r].result.text = <<"Package not found">>

\* package names that are empty or hold whitespace only
BlankNames == {"", "  "}

\* request q ended with the error of the given code and message, thrown to
\* the protocol layer or returned as the text of an error result
Rejected(q, code, message) ==
    \/ /\ q.result.kind = "throw"
       /\ q.result.error.class = "McpError"
       /\ q.result.error.code = code
       /\ q.result.error.message = message
    \/ /\ q.result.kind = "return"
       /\ q.result.isError
       /\ q.result.text = message

(* C16: a get_package_details request whose package_name is the empty string
   or whitespace only is rejected with an InvalidParams error of message
   "Invalid package name: cannot be empty". *)
C16_BlankNameRejected ==
    \A r \in RequestIds :
        LET q == requests[r]
        IN  (/\ q.pc = "done"
             /\ q.name = "get_package_details"
             /\ q.arguments.hasName
             /\ q.arguments.package_name \in BlankNames)
            => Rejected(q, "InvalidParams",
                        <<"Invalid package name: cannot be empty">>)

(* C17: a get_package_details request without the package_name argument is
   rejected with an InvalidParams error of message "Missing required
   parameter: package_name" and returns no package details. *)
C17_MissingNameRejected ==
    \A r \in RequestIds :
        LET q == requests[r]
        IN  (/\ q.pc = "done"
             /\ q.name = "get_package_details"
             /\ ~q.arguments.hasName)
            => /\ Rejected(q, "InvalidParams",
                           <<"Missing required parameter: package_name">>)
               /\ q.result.details = <<>>

(* C18: validation comes before any registry call: a get_package_details
   request whose package_name is missing, empty or whitespace only never
   issues an HTTP request. *)
C18_ValidationBeforeFetch ==
    \A r \in RequestIds :
        LET q == requests[r]
        IN  (/\ IsDetailsRequest(q)
             /\ (~q.arguments.hasName
                    \/ q.arguments.package_name \in BlankNames))
            => q.gets = 0

(* C19: a CallTool request naming a tool the server does not have throws an
   McpError of code MethodNotFound and message "Unknown tool: <name>"; it
   issues no registry request, and the catch block does not turn the error
   into a "Package not found" or "PyPI API error" result. *)
C19_UnknownTool ==
    \A r \in RequestIds :
        LET q == requests[r]
        IN  (q.pc # "idle" /\ q.name \notin KnownTools)
            => /\ q.pc = "done"
               /\ q.result.kind = "throw"
               /\ q.result.error.class = "McpError"
               /\ q.result.error.code = "MethodNotFound"
               /\ q.result.error.message = <<"Unknown tool: ", q.name>>
               /\ ~q.result.isError
               /\ q.result.text = <<>>
               /\ q.result.details = <<>>
               /\ q.gets = 0
               /\ q.response = NoResponse

C19_Witness ==
    \E r \in RequestIds :
        /\ requests[r].pc = "done"
        /\ requests[r].name = "delete_package"
        /\ requests[r].arguments.package_name = HostedPackage
        /\ requests[r].result.kind = "throw"
        /\ requests[r].result.error.message
              = <<"Unknown tool: ", "delete_package">>

\* the registry call of request q failed with an axios error other than 404
FailedOtherThan404(q) ==
    \/ q.response.outcome = "timeout"
    \/ q.response.outcome = "status" /\ q.response.status # 404

(* C20: when the registry request of a tool call fails with an axios error
   other than a 404 (another status, a timeout), the handler returns an
   error result, isError true, with the text "PyPI API error: " followed by
   the error's message, and does not throw; what it rethrows are the errors
   that are not axios errors. *)
C20_ApiErrorResult ==
    \A r \in RequestIds :
        LET q == requests[r]
        IN  q.pc = "done" =>
               /\ FailedOtherThan404(q) =>
                     /\ q.result.kind = "return"
                     /\ q.result.isError
                     /\ q.result.details = <<>>
                     /\ Len(q.result.text) > 1
                     /\ q.result.text[1] = "PyPI API error: "
                     /\ SubSeq(q.result.text, 2, Len(q.result.text))
                           = (IF q.response.outcome = "timeout"
                              THEN <<"timeout of 10000ms exceeded">>
                              ELSE <<"Request failed with status code ",
                                     "500">>)
               /\ q.result.kind = "throw" =>
                     /\ ~q.result.error.isAxiosError
                     /\ q.result.error.class \in {"TypeError", "McpError"}
                     /\ ~FailedOtherThan404(q)

\* one request reported a timeout, the other rethrew the TypeError of a body
\* without releases
C20_Witness ==
    \E r \in RequestIds, s \in RequestIds :
        /\ requests[r].pc = "done"
        /\ requests[r].response.outcome = "timeout"
        /\ requests[r].result.isError
        /\ requests[r].result.text
              = <<"PyPI API error: ", "timeout of 10000ms exceeded">>
        /\ requests[s].pc = "done"
        /\ requests[s].response.outcome = "malformed"
        /\ requests[s].result.kind = "throw"
        /\ requests[s].result.error.class = "TypeError"

-----------------------------------------------------------------------------
\* recencyScore + frequencyScore of a call, as a numerator over MonthTicks
UnroundedSum(c) == c.recencyScore + c.frequencyScore * MonthTicks

\* the fractional part of the unrounded sum of call c is exactly one half
IsHalfway(c) == (2 * UnroundedSum(c)) % (2 * MonthTicks) = MonthTicks

(* C23: the score a call returns is the integer nearest to recencyScore +
   frequencyScore, no more than one half away from it, and a sum that lies
   exactly halfway between two integers gives the upper one. *)
C23_RoundedToNearest ==
    Scored =>
        LET sum == UnroundedSum(call)
            scaled == call.score * MonthTicks
        IN  /\ 2 * (scaled - sum) <= MonthTicks
            /\ 2 * (sum - scaled) <= MonthTicks
            /\ IsHalfway(call) => 2 * scaled = 2 * sum + MonthTicks

\* 49.5 + 5 = 54.5 gives 55
C23_Witness ==
    /\ Scored
    /\ Len(call.releaseHistory) = 1
    /\ Age(call) = HalfStep
    /\ IsHalfway(call)
    /\ call.score = 55

\* no record of a call is dated later than its clock reading
NoneInFuture(c) ==
    \A i \in 1..Len(c.releaseHistory) : c.releaseHistory[i].date <= c.now

(* C27: for a history sorted most recent first with no timestamp later than
   the clock reading, the score is 31 or more (and the label is not "Poorly
   maintained") exactly when the most recent release is strictly inside the
   trailing 365 days; otherwise it is 26 or less.  No score lies in 27..30. *)
C27_ScoreGap ==
    (call.done /\ IsSortedDesc(call.releaseHistory) /\ NoneInFuture(call)) =>
        LET inside == Len(call.releaseHistory) > 0 /\ Age(call) < YearTicks
        IN  /\ inside <=> call.score >= 31
            /\ inside => call.status # "Poorly maintained"
            /\ ~inside => call.score <= 26
            /\ call.score \notin 27..30

\* one tick short of 365 days: 25.67 and 5 give 31
C27_Witness ==
    /\ Scored
    /\ NoneInFuture(call)
    /\ Len(call.releaseHistory) = 1
    /\ Age(call) = YearTicks - 1
    /\ call.score = 31
    /\ call.status = "Minimally maintained"

\* the labels from worst to best
StatusRank(status) ==
    CASE status = "Poorly maintained" -> 0
      [] status = "Minimally maintained" -> 1
      [] status = "Occasionally maintained" -> 2
      [] status = "Regularly maintained" -> 3
      [] status = "Actively maintained" -> 4

(* C28: scoring one release history again at a later clock reading never
   gives a higher score nor a better label than the earlier call gave. *)
C28_TimeMonotone ==
    [][(/\ call.done
        /\ call'.done
        /\ call'.releaseHistory = call.releaseHistory
        /\ call'.now >= call.now)
       => /\ call'.score <= call.score
          /\ StatusRank(call'.status) <= StatusRank(call.status)]_vars

\* a history scored, the clock moved on, and the next call on the same
\* history about to return a lower score and a worse label
C28_Witness ==
    /\ Scored
    /\ releaseHistory = call.releaseHistory
    /\ now > call.now
    /\ calculateMaintenanceScore(releaseHistory, now) < call.score
    /\ StatusRank(getMaintenanceStatus(
                     calculateMaintenanceScore(releaseHistory, now)))
          < StatusRank(call.status)

(* C29: in every successful get_package_details response maintenanceStatus
   is getMaintenanceStatus(maintenanceScore), maintenanceScore is computed
   from the full release history, releaseHistory is the first min(10, n)
   records of the sorted full history, and lastRelease is the date of the
   first record, or "No releases found" exactly when the history is empty. *)
C29_DetailsFields ==
    \A r \in RequestIds :
        Detailed(requests[r]) =>
            LET q == requests[r]
                d == DetailsOf(q)
                h == SortByDateDesc(flatMapReleases(q.response.releases))
            IN  /\ d.maintenanceStatus
                      = getMaintenanceStatus(d.maintenanceScore)
                /\ d.maintenanceScore = calculateMaintenanceScore(h, q.clock)
                /\ Len(d.releaseHistory) = IF Len(h) < 10 THEN Len(h) ELSE 10
                /\ \A i \in 1..Len(d.releaseHistory) : d.releaseHistory[i] = h[i]
                /\ Len(h) = 0 <=> d.lastRelease = [text |-> "No releases found"]
                /\ Len(h) > 0 => d.lastRelease = [date |-> h[1].date]

\* eleven files, the older version listed first: ten records returned, the
\* score computed from all eleven
C29_Witness ==
    /\ Detailed(requests[1])
    /\ Len(requests[1].response.releases) = 2
    /\ requests[1].response.releases[1].files[1].upload_time = 0
    /\ Len(requests[1].history) = 11
    /\ Len(DetailsOf(requests[1]).releaseHistory) = 10
    /\ DetailsOf(requests[1]).lastRelease = [date |-> HalfStep]
    /\ requests[1].history[11].date = 0
    /\ DetailsOf(requests[1]).releaseHistory[10].date = HalfStep
    /\ requests[1].clock = MonthTicks
    /\ DetailsOf(requests[1]).maintenanceScore = 99

-----------------------------------------------------------------------------
(* Vocabulary of the properties of the cache *)

\* this step is the start of getAllPackages in call c
Starts(c) ==
    /\ calls[c].pc \in {"idle", "done"}
    /\ calls'[c] # calls[c]
    /\ calls'[c].query # ""

\* this step is the end of call c, whose fetch failed
FetchFails(c) ==
    /\ calls[c].pc = "responded"
    /\ calls'[c].pc = "done"
    /\ calls[c].response.outcome # "ok"

\* the result is an error, thrown or returned
IsErrorResult(result) ==
    \/ result.kind = "throw"
    \/ result.kind = "return" /\ result.isError

(* C24: a getAllPackages call made less than 3,600,000 ms after the
   recorded time of the last refresh, a list being cached, returns the
   cached list without an HTTP request; a call made 3,600,000 ms or more
   after it, or with nothing cached, issues a fetch. *)
C24_TtlGuard ==
    [][\A c \in CallIds :
          Starts(c) =>
             IF ~packageCache.isNull /\ clockMs - lastCacheUpdate < 3600000
             THEN /\ calls'[c].pc = "done"
                  /\ calls'[c].gets = 0
                  /\ calls'[c].packages =
                        [from |-> "cache", names |-> packageCache.names]
                  /\ calls'[c].result.kind = "return"
             ELSE /\ calls'[c].pc = "fetching"
                  /\ calls'[c].gets = 1
                  /\ calls'[c].packages = NoList]_vars

\* one call answered from the cache one ms before the TTL ran out, the
\* other, begun at the TTL, fetching
C24_Witness ==
    \E c \in CallIds, d \in CallIds :
        /\ ~packageCache.isNull
        /\ calls[c].pc = "done"
        /\ calls[c].packages.from = "cache"
        /\ calls[c].gets = 0
        /\ calls[c].now - lastCacheUpdate = CACHE_TTL - 1
        /\ calls[d].pc = "fetching"
        /\ calls[d].gets = 1
        /\ calls[d].now - lastCacheUpdate = CACHE_TTL

(* C25 as stated: when the fetch of a getAllPackages call fails and a list
   is cached, the call returns the cached list without throwing and leaves
   packageCache and lastCacheUpdate as they were, so that the next call
   fetches again. *)
C25_AsClaimed ==
    [][\A c \in CallIds :
          (FetchFails(c) /\ ~packageCache.isNull) =>
             /\ calls'[c].packages =
                   [from |-> "stale", names |-> packageCache.names]
             /\ calls'[c].result.kind = "return"
             /\ ~calls'[c].result.isError
             /\ packageCache' = packageCache
             /\ lastCacheUpdate' = lastCacheUpdate
             /\ ~cacheIsFresh(packageCache', lastCacheUpdate', clockMs')]_vars

(* C25, amended: when the fetch of a getAllPackages call fails and a list
   is cached, the call returns the cached list without throwing and leaves
   packageCache and lastCacheUpdate as they were; the next call fetches
   again if no other call has refreshed the cache since the failed call
   began. *)
C25_StaleFallback ==
    [][\A c \in CallIds :
          (FetchFails(c) /\ ~packageCache.isNull) =>
             /\ calls'[c].packages =
                   [from |-> "stale", names |-> packageCache.names]
             /\ calls'[c].result.kind = "return"
             /\ ~calls'[c].result.isError
             /\ packageCache' = packageCache
             /\ lastCacheUpdate' = lastCacheUpdate
             /\ lastCacheUpdate = calls[c].seen
                   => ~cacheIsFresh(packageCache', lastCacheUpdate', clockMs')]_vars

\* a call has returned the stale list, nothing has been refreshed since it
\* began, and the TTL of the list has run out
C25_Witness ==
    \E c \in CallIds :
        /\ calls[c].pc = "done"
        /\ calls[c].packages.from = "stale"
        /\ calls[c].packages.names = packageCache.names
        /\ calls[c].response.outcome = "timeout"
        /\ calls[c].result.kind = "return"
        /\ lastCacheUpdate = calls[c].seen
        /\ clockMs - lastCacheUpdate >= CACHE_TTL

(* C26: when the fetch of a getAllPackages call fails and no list has ever
   been cached, the error goes to the caller, search_packages ends with an
   error and not with an empty result, and the cache stays empty with
   lastCacheUpdate 0. *)
C26_NoCacheErrorPropagates ==
    /\ [](packageCache.isNull => lastCacheUpdate = 0)
    /\ [][\A c \in CallIds :
             (FetchFails(c) /\ packageCache.isNull) =>
                /\ calls'[c].packages = [from |-> "thrown", names |-> <<>>]
                /\ IsErrorResult(calls'[c].result)
                /\ calls'[c].result.details = <<>>
                /\ calls'[c].result # ReturnResults(<<>>)
                /\ packageCache' = Null
                /\ lastCacheUpdate' = 0]_vars

\* a timeout with nothing cached: the error thrown on, the cache empty
C26_Witness ==
    \E c \in CallIds :
        /\ calls[c].pc = "done"
        /\ calls[c].packages.from = "thrown"
        /\ calls[c].response.outcome = "timeout"
        /\ ~calls[c].response.hasResponse
        /\ calls[c].result.kind = "throw"
        /\ calls[c].result.error.class = "AxiosError"
        /\ packageCache = Null
        /\ lastCacheUpdate = 0

(* C30: however concurrent getAllPackages calls interleave, lastCacheUpdate
   never decreases, and the cached list is the one obtained by the fetch
   whose start time lastCacheUpdate holds. *)
C30_CacheNeverRegresses ==
    [][/\ lastCacheUpdate' >= lastCacheUpdate
       /\ (packageCache' # packageCache \/ lastCacheUpdate' # lastCacheUpdate)
             => \E c \in CallIds :
                   /\ calls[c].pc = "responded"
                   /\ calls[c].response.outcome = "ok"
                   /\ lastCacheUpdate' = calls[c].now
                   /\ packageCache'
                         = Cached(packageNames(calls[c].response.html))]_vars

-----------------------------------------------------------------------------
(* Vocabulary of the properties of the search *)

\* the search has returned after Promise.all resolved
SearchReturned ==
    /\ search.pc = "done"
    /\ Len(search.packageNames) > 0
    /\ Len(search.order) = Len(search.packageNames)

\* the packages of the catalogue that are about video and are not marked
\* by a negative term alone
RelevantNames == {"SceneDetect", "video-split"}

\* the candidates whose detail fetch succeeded
Fetched ==
    {search.packageNames[i] :
        i \in {j \in 1..Len(search.packageNames) :
                  search.detailedResults[j].outcome = "ok"}}

(* C21: in search_packages the failure of the detail fetch of a candidate,
   a 404 included, neither fails the search nor shows as an error result:
   the candidate is left out, and the response holds exactly the candidates
   whose fetch succeeded and that pass the relevance filter, in whatever
   order the fetches complete. *)
C21_FailedCandidatesOmitted ==
    SearchReturned =>
        /\ search.result.kind = "return"
        /\ ~search.result.isError
        /\ search.result.error = NoError
        /\ {search.result.details[k].name :
               k \in 1..Len(search.result.details)}
              = Fetched \cap RelevantNames
        /\ Len(search.result.details) = Cardinality(Fetched \cap RelevantNames)

\* three candidates answered in the reverse of their order, the first with
\* a 404: the response holds the second alone, the third being irrelevant
C21_Witness ==
    /\ SearchReturned
    /\ search.packageNames = <<"SceneDetect", "video-split", "video-player">>
    /\ search.order = <<3, 2, 1>>
    /\ search.detailedResults[1].outcome = "status"
    /\ search.detailedResults[2].outcome = "ok"
    /\ search.detailedResults[3].outcome = "ok"
    /\ Len(search.result.details) = 1
    /\ search.result.details[1].name = "video-split"
    /\ ~search.result.isError

(* C22: the list search_packages returns is ordered by maintenanceScore from
   the highest on, has at most limit entries (100 when no limit is given),
   and every entry satisfies isRelevantPackage, in whatever order the
   detail fetches complete. *)
C22_SortedLimitedRelevant ==
    (search.pc = "done" /\ search.result.kind = "return"
        /\ ~search.result.isError) =>
        LET results == search.result.details
        IN  /\ \A k \in 1..(Len(results) - 1) :
                  results[k].maintenanceScore >= results[k + 1].maintenanceScore
            /\ Len(results) <= (IF search.limit = 0 THEN 100 ELSE search.limit)
            /\ \A k \in 1..Len(results) :
                  /\ isRelevantPackage(results[k])
                  /\ results[k].name \in RelevantNames

\* limit 2, the second candidate answered first and scoring higher than
\* the first: it comes first in the response
C22_Witness ==
    /\ SearchReturned
    /\ search.limit = 2
    /\ search.packageNames = <<"SceneDetect", "video-split">>
    /\ search.order = <<2, 1>>
    /\ Len(search.result.details) = 2
    /\ search.result.details[1].name = "video-split"
    /\ search.result.details[2].name = "SceneDetect"
    /\ search.result.details[1].maintenanceScore
          > search.result.details[2].maintenanceScore

====
